---------------------------- MODULE Spec2Model ----------------------------
(***************************************************************************)
(* StatesMetaManager (homeassistant/components/recorder/table_managers/    *)
(* states_meta.py): the entity_id -> metadata_id cache of the recorder.    *)
(*                                                                         *)
(* The recorder thread (the owner) and one other context (a history query) *)
(* share one manager.  A storage query suspends its                        *)
(* caller: the query is evaluated against storage in one step (Query) and  *)
(* its rows are consumed in a later step (Apply); every other piece of a   *)
(* method runs without suspension and is one step.                         *)
(*                                                                         *)
(* None is modelled as 0; metadata ids are 1..MaxMeta.                     *)
(* The LRU (lru-dict) is a sequence of <<entity_id, metadata_id>> pairs,   *)
(* least recently used first.  The pending dict is a sequence of pairs in  *)
(* insertion order.                                                        *)
(*                                                                         *)
(* The callers keep to the docstrings: the owner alone calls load,         *)
(* add_pending, post_commit_pending, reset and evict_purged and passes     *)
(* from_recorder=True; post_commit_pending follows the commit that gave    *)
(* the pending records their ids; evict_purged follows the purge that      *)
(* deleted the rows.                                                       *)
(*                                                                         *)
(* Spec      the two contexts interleave, NumIdsC entity ids               *)
(* SpecWide  the two contexts interleave, NumIds entity ids (more than the *)
(*           LRU holds)                                                    *)
(* SpecSeq   one method at a time, NumIds entity ids, requests of up to    *)
(*           MaxReq ids (more than one query takes)                        *)
(* SpecFail  SpecSeq with storage queries that may raise                   *)
(* SpecDump  Spec with get_metadata_id_to_entity_id from both contexts     *)
(* SpecMisuse  one method at a time, by callers that call add_pending with *)
(*           any entity_id and post_commit_pending without a commit        *)
(***************************************************************************)
EXTENDS Integers, Sequences, FiniteSets, TLC

\* ------------------------------------------------------------- bounds
NumIds == 3          \* entity ids are 1..NumIds
MaxMeta == 3         \* storage hands out metadata ids 1..MaxMeta
MaxReq == 3          \* longest entity_ids argument of get_many / load
MaxCache == 2        \* the LRU's capacity in the model (8192 in the source)
MaxBind == 2         \* the bind-variable limit in the model
MaxReqC == 1         \* longest entity_ids argument when calls interleave
NumIdsC == 2         \* entity ids in use when calls interleave

\* ---------------------------------------------------------- constants
None == 0
\* the empty string, an entity_id that is a str and is not None
EmptyStr == -1
CACHE_SIZE == MaxCache
SQLITE_MAX_BIND_VARS == MaxBind

\* the recorder thread, and a context that is not the recorder thread
Owner == "recorder"
Reader == "history"
Procs == {Owner, Reader}
Ids == 1..NumIds
IdsC == 1..NumIdsC
\* the values the entity_id column of a row can hold
EntityIds == Ids \cup {EmptyStr}

VARIABLES
    storage,          \* the states_meta table: entity_id -> metadata_id or None
    nextId,           \* the table's next autoincrement metadata_id
    id_map,           \* self._id_map
    pending,          \* self._pending
    did_first_load,   \* self._did_first_load
    pc,               \* each context's position
    op,               \* the method each context is in
    entity_ids,       \* get_many's argument
    results,          \* get_many's results dict
    missing,          \* get_many's missing list
    chunks,           \* the chunks of missing not queried yet
    update_cache,     \* get_many's update_cache
    rows,             \* the rows of the query in flight
    nq,               \* storage queries the call has issued
    ret,              \* get's return value
    last              \* the owner's last cache maintenance, until the next
                      \* method starts or the next resolution returns

vars == <<storage, nextId, id_map, pending, did_first_load, pc, op,
          entity_ids, results, missing, chunks, update_cache, rows, nq, ret,
          last>>

call == <<entity_ids, results, missing, chunks, update_cache, rows, nq, ret>>

\* ------------------------------------------------------------ helpers
\* every sequence that lists the elements of S once each
SeqsOf(S) ==
    {s \in [1..Cardinality(S) -> S] : \A x \in S : \E i \in DOMAIN s : s[i] = x}

\* the sequences over S of length at most n
SeqsUpTo(S, n) == UNION {[1..k -> S] : k \in 0..n}

Range(s) == {s[i] : i \in DOMAIN s}

\* the elements of a set of numbers in ascending order
Sorted(S) == CHOOSE s \in SeqsOf(S) : \A i, j \in DOMAIN s : i < j => s[i] < s[j]

EmptyMap == [x \in {} |-> None]

\* ---------------------------------------------------------------- LRU
LruKeys(m) == {m[i][1] : i \in DOMAIN m}

LruRemove(m, k) == SelectSeq(m, LAMBDA e : e[1] # k)

\* the value stored under k, None when there is none (no promotion)
LruPeek(m, k) ==
    IF k \in LruKeys(m)
    THEN LET i == CHOOSE j \in DOMAIN m : m[j][1] = k IN m[i][2]
    ELSE None

LruTouchForgets(m, k) == LruRemove(m, k)

\* a get that leaves the order alone
LruTouchKeepsOrder(m, k) == m

\* LRU.get(k)'s effect on the order: a hit becomes the most recently used
LruTouch(m, k) ==
    IF k \in LruKeys(m)
    THEN Append(LruRemove(m, k), <<k, LruPeek(m, k)>>)
    ELSE m

LruSetNoEvict(m, k, v) == Append(LruRemove(m, k), <<k, v>>)

\* LRU[k] = v: the entry becomes the most recently used; a new key beyond
\* the capacity drops the least recently used entry
LruSet(m, k, v) ==
    LET m2 == Append(LruRemove(m, k), <<k, v>>)
    IN  IF Len(m2) > CACHE_SIZE THEN Tail(m2) ELSE m2

\* LRU.pop(k, None)
LruPop(m, k) == LruRemove(m, k)

\* the cache as a mapping, without its recency order
Contents(m) == {<<m[i][1], m[i][2]>> : i \in DOMAIN m}

\* ------------------------------------------------------- pending dict
DictKeys(d) == {d[i][1] : i \in DOMAIN d}

\* d[k] = v that forgets the other keys
DictSetAlone(d, k, v) == <<<<k, v>>>>

\* d[k] = v on an insertion-ordered dict: an existing key keeps its place
DictSet(d, k, v) ==
    IF k \in DictKeys(d)
    THEN [i \in DOMAIN d |-> IF d[i][1] = k THEN <<k, v>> ELSE d[i]]
    ELSE Append(d, <<k, v>>)

\* ----------------------------------------------------------- get_many
\* the cache pass with a miss remembered as None
RECURSIVE ScanCachesMisses(_, _, _, _)
ScanCachesMisses(ids, m, res, miss) ==
    IF ids = <<>>
    THEN [m |-> m, results |-> res, missing |-> miss]
    ELSE LET e == Head(ids)
             metadata_id == LruPeek(m, e)
         IN  ScanCachesMisses(Tail(ids),
                              IF metadata_id = None
                              THEN LruSet(m, e, None)
                              ELSE LruTouch(m, e),
                              (e :> metadata_id) @@ res,
                              IF metadata_id = None THEN Append(miss, e) ELSE miss)

\* the cache pass that takes an id in the pending buffer for a hit
RECURSIVE ScanReadsPending(_, _, _, _)
ScanReadsPending(ids, m, res, miss) ==
    IF ids = <<>>
    THEN [m |-> m, results |-> res, missing |-> miss]
    ELSE LET e == Head(ids)
             metadata_id == IF e \in DictKeys(pending) /\ LruPeek(m, e) = None
                            THEN nextId
                            ELSE LruPeek(m, e)
         IN  ScanReadsPending(Tail(ids), LruTouch(m, e),
                              (e :> metadata_id) @@ res,
                              IF metadata_id = None THEN Append(miss, e) ELSE miss)

\* lines 85-89: the cache pass over entity_ids
RECURSIVE Scan(_, _, _, _)
Scan(ids, m, res, miss) ==
    IF ids = <<>>
    THEN [m |-> m, results |-> res, missing |-> miss]
    ELSE LET e == Head(ids)
             metadata_id == LruPeek(m, e)
         IN  Scan(Tail(ids), LruTouch(m, e), (e :> metadata_id) @@ res,
                  IF metadata_id = None THEN Append(miss, e) ELSE miss)

UpdateCacheOwnerOnly(from_recorder, first_load) == from_recorder

\* update_cache if a reset brought the manager back to its first state
UpdateCacheColdAfterReset(from_recorder, first_load) ==
    from_recorder \/ ~first_load \/ last.name = "reset"

\* line 100
UpdateCache(from_recorder, first_load) == from_recorder \/ ~first_load

\* ..util.chunked: consecutive pieces of at most n elements
RECURSIVE Chunked(_, _)
Chunked(s, n) ==
    IF s = <<>>
    THEN <<>>
    ELSE IF Len(s) <= n
         THEN <<s>>
         ELSE <<SubSeq(s, 1, n)>> \o Chunked(SubSeq(s, n + 1, Len(s)), n)

MissingUnchunked(miss) == <<miss>>

\* line 103: chunked(missing, SQLITE_MAX_BIND_VARS)
MissingChunks(miss) == Chunked(miss, SQLITE_MAX_BIND_VARS)

\* ..queries.find_states_metadata_ids: the (metadata_id, entity_id) rows
\* whose entity_id is one of the chunk's
FindStatesMetadataIds(chunk, st) ==
    {<<st[e], e>> : e \in {x \in Range(chunk) : st[x] # None}}

\* the rows of one chunk, cached and not put in results
RECURSIVE ApplyRowsNoResult(_, _, _, _)
ApplyRowsNoResult(rs, res, m, upd) ==
    IF rs = <<>>
    THEN [m |-> m, results |-> res]
    ELSE ApplyRowsNoResult(Tail(rs), res,
                           IF upd THEN LruSet(m, Head(rs)[2], Head(rs)[1]) ELSE m,
                           upd)

\* lines 104-111: the rows of one chunk
RECURSIVE ApplyRows(_, _, _, _)
ApplyRows(rs, res, m, upd) ==
    IF rs = <<>>
    THEN [m |-> m, results |-> res]
    ELSE LET metadata_id == Head(rs)[1]
             entity_id == Head(rs)[2]
         IN  ApplyRows(Tail(rs), (entity_id :> metadata_id) @@ res,
                       IF upd THEN LruSet(m, entity_id, metadata_id) ELSE m,
                       upd)

\* line 61: get's subscript of get_many's result
GetResult(o, ids, res) == IF o = "get" THEN res[ids[1]] ELSE None

\* ------------------------------------------------ post_commit_pending
PromoteNothing(pend, m) == m

\* lines 139-140
RECURSIVE Promote(_, _)
Promote(pend, m) ==
    IF pend = <<>>
    THEN m
    ELSE Promote(Tail(pend), LruSet(m, Head(pend)[1], Head(pend)[2]))

\* -------------------------------------------------------- evict_purged
EvictNothing(ids, m) == m

\* lines 158-159
RECURSIVE Evict(_, _)
Evict(ids, m) ==
    IF ids = <<>> THEN m ELSE Evict(Tail(ids), LruPop(m, Head(ids)))

\* --------------------------------------------------------------- Init
NoLast == [name |-> "none", arg |-> <<>>]

Init ==
    /\ storage = [e \in EntityIds |-> None]
    /\ nextId = 1
    /\ id_map = <<>>
    /\ pending = <<>>
    /\ did_first_load = FALSE
    /\ pc = [p \in Procs |-> "idle"]
    /\ op = [p \in Procs |-> "none"]
    /\ entity_ids = [p \in Procs |-> <<>>]
    /\ results = [p \in Procs |-> EmptyMap]
    /\ missing = [p \in Procs |-> <<>>]
    /\ chunks = [p \in Procs |-> <<>>]
    /\ update_cache = [p \in Procs |-> FALSE]
    /\ rows = [p \in Procs |-> <<>>]
    /\ nq = [p \in Procs |-> 0]
    /\ ret = [p \in Procs |-> None]
    /\ last = NoLast

\* the owner returns from a method that issues no storage query
OwnerReturns ==
    /\ pc' = [pc EXCEPT ![Owner] = "idle"]
    /\ op' = [op EXCEPT ![Owner] = "none"]

\* ----------------------------------------------------------- get_many
\* lines 83-100: the cache pass, the early return, update_cache
Begin(p, o, ids, first_load) ==
    LET s == Scan(ids, id_map, EmptyMap, <<>>)
    IN  /\ id_map' = s.m
        /\ op' = [op EXCEPT ![p] = o]
        /\ entity_ids' = [entity_ids EXCEPT ![p] = ids]
        /\ results' = [results EXCEPT ![p] = s.results]
        /\ missing' = [missing EXCEPT ![p] = s.missing]
        /\ IF s.missing = <<>>
           THEN /\ pc' = [pc EXCEPT ![p] = "done"]
                /\ ret' = [ret EXCEPT ![p] = GetResult(o, ids, s.results)]
                /\ UNCHANGED <<chunks, update_cache>>
           ELSE /\ pc' = [pc EXCEPT ![p] = "query"]
                /\ chunks' = [chunks EXCEPT ![p] = MissingChunks(s.missing)]
                /\ update_cache' = [update_cache EXCEPT
                                      ![p] = UpdateCache(p = Owner, first_load)]
                /\ UNCHANGED ret
        /\ UNCHANGED <<rows, nq>>

\* get_many(entity_ids, session, from_recorder), from_recorder = (p = Owner),
\* entity_ids over U and no longer than n
GetMany(p, U, n) ==
    /\ pc[p] = "idle"
    /\ \E ids \in SeqsUpTo(U, n) : Begin(p, "get_many", ids, did_first_load)
    /\ UNCHANGED <<storage, nextId, pending, did_first_load>>
    /\ UNCHANGED last

\* get(entity_id, session, from_recorder)
Get(p, U) ==
    /\ pc[p] = "idle"
    /\ \E e \in U : Begin(p, "get", <<e>>, did_first_load)
    /\ UNCHANGED <<storage, nextId, pending, did_first_load>>
    /\ UNCHANGED last

\* a load that leaves the flag to a later step
LoadKeepsFlag(U, n) ==
    /\ pc[Owner] = "idle"
    /\ UNCHANGED did_first_load
    /\ \E events \in SeqsUpTo(U \cup {None}, n) :
         \E ids \in SeqsOf(Range(events) \ {None}) :
            Begin(Owner, "load", ids, did_first_load)
    /\ UNCHANGED <<storage, nextId, pending>>
    /\ last' = NoLast

\* load(events, session); an event without a new_state is None
Load(U, n) ==
    /\ pc[Owner] = "idle"
    /\ did_first_load' = TRUE
    /\ \E events \in SeqsUpTo(U \cup {None}, n) :
         \E ids \in SeqsOf(Range(events) \ {None}) :
            Begin(Owner, "load", ids, TRUE)
    /\ UNCHANGED <<storage, nextId, pending>>
    /\ last' = NoLast

\* lines 104-105: session.execute evaluates the query for the next chunk
Query(p) ==
    /\ pc[p] = "query"
    /\ \E rs \in SeqsOf(FindStatesMetadataIds(Head(chunks[p]), storage)) :
         rows' = [rows EXCEPT ![p] = rs]
    /\ chunks' = [chunks EXCEPT ![p] = Tail(chunks[p])]
    /\ nq' = [nq EXCEPT ![p] = nq[p] + 1]
    /\ pc' = [pc EXCEPT ![p] = "apply"]
    /\ UNCHANGED <<storage, nextId, id_map, pending, did_first_load, op,
                   entity_ids, results, missing, update_cache, ret>>
    /\ UNCHANGED last

\* lines 104-113: the rows of the chunk, then the next chunk or the return
Apply(p) ==
    /\ pc[p] = "apply"
    /\ LET a == ApplyRows(rows[p], results[p], id_map, update_cache[p])
       IN  /\ id_map' = a.m
           /\ results' = [results EXCEPT ![p] = a.results]
           /\ IF chunks[p] = <<>>
              THEN /\ pc' = [pc EXCEPT ![p] = "done"]
                   /\ ret' = [ret EXCEPT
                                ![p] = GetResult(op[p], entity_ids[p], a.results)]
              ELSE /\ pc' = [pc EXCEPT ![p] = "query"]
                   /\ UNCHANGED ret
    /\ rows' = [rows EXCEPT ![p] = <<>>]
    /\ UNCHANGED <<storage, nextId, pending, did_first_load, op, entity_ids,
                   missing, chunks, update_cache, nq>>
    /\ UNCHANGED last

\* the caller has the result; the call's locals are gone
Return(p) ==
    /\ pc[p] = "done"
    /\ pc' = [pc EXCEPT ![p] = "idle"]
    /\ op' = [op EXCEPT ![p] = "none"]
    /\ entity_ids' = [entity_ids EXCEPT ![p] = <<>>]
    /\ results' = [results EXCEPT ![p] = EmptyMap]
    /\ missing' = [missing EXCEPT ![p] = <<>>]
    /\ chunks' = [chunks EXCEPT ![p] = <<>>]
    /\ update_cache' = [update_cache EXCEPT ![p] = FALSE]
    /\ rows' = [rows EXCEPT ![p] = <<>>]
    /\ nq' = [nq EXCEPT ![p] = 0]
    /\ ret' = [ret EXCEPT ![p] = None]
    /\ UNCHANGED <<storage, nextId, id_map, pending, did_first_load>>
    /\ last' = NoLast

\* -------------------------------------------------------- add_pending
\* add_pending(db_states_meta): a new StatesMeta, its metadata_id not
\* assigned yet, for an entity_id of U that has no row
AddPending(U) ==
    /\ pc[Owner] = "idle"
    /\ \E e \in U :
         /\ storage[e] = None
         /\ pending' = DictSet(pending, e, None)
    /\ OwnerReturns
    /\ UNCHANGED <<storage, nextId, id_map, did_first_load, call>>
    /\ last' = NoLast

\* ------------------------------------------------------------- commit
\* the session's commit: each pending StatesMeta gets its row and its
\* metadata_id; post_commit_pending follows
Commit ==
    /\ pc[Owner] = "idle"
    /\ pending # <<>>
    /\ nextId + Len(pending) - 1 <= MaxMeta
    /\ pending' = [i \in DOMAIN pending |-> <<pending[i][1], nextId + i - 1>>]
    /\ storage' = [e \in EntityIds |->
                     IF e \in DictKeys(pending)
                     THEN LruPeek(pending', e)
                     ELSE storage[e]]
    /\ nextId' = nextId + Len(pending)
    /\ pc' = [pc EXCEPT ![Owner] = "post_commit"]
    /\ op' = [op EXCEPT ![Owner] = "commit"]
    /\ UNCHANGED <<id_map, did_first_load, call>>
    /\ last' = NoLast

\* post_commit_pending()
PostCommitPending ==
    /\ pc[Owner] = "post_commit"
    /\ id_map' = Promote(pending, id_map)
    /\ pending' = <<>>
    /\ OwnerReturns
    /\ UNCHANGED <<storage, nextId, did_first_load, call>>
    /\ last' = [name |-> "post_commit_pending", arg |-> pending]

\* -------------------------------------------------------------- reset
\* reset()
Reset ==
    /\ pc[Owner] = "idle"
    /\ id_map' = <<>>
    /\ pending' = <<>>
    /\ OwnerReturns
    /\ UNCHANGED <<storage, nextId, did_first_load, call>>
    /\ last' = [name |-> "reset", arg |-> pending]

\* -------------------------------------------------------------- purge
\* the purge deletes the rows of some entity ids; evict_purged follows with
\* these ids (pops commute: the order they are passed in changes nothing)
Purge ==
    /\ pc[Owner] = "idle"
    /\ \E S \in SUBSET {e \in Ids : storage[e] # None} :
         /\ S # {}
         /\ storage' = [e \in EntityIds |->
                          IF e \in S THEN None ELSE storage[e]]
         /\ entity_ids' = [entity_ids EXCEPT ![Owner] = Sorted(S)]
    /\ pc' = [pc EXCEPT ![Owner] = "evict"]
    /\ op' = [op EXCEPT ![Owner] = "purge"]
    /\ UNCHANGED <<nextId, id_map, pending, did_first_load, results, missing,
                   chunks, update_cache, rows, nq, ret>>
    /\ last' = NoLast

\* evict_purged(entity_ids)
EvictPurged ==
    /\ pc[Owner] = "evict"
    /\ id_map' = Evict(entity_ids[Owner], id_map)
    /\ entity_ids' = [entity_ids EXCEPT ![Owner] = <<>>]
    /\ OwnerReturns
    /\ UNCHANGED <<storage, nextId, pending, did_first_load, results, missing,
                   chunks, update_cache, rows, nq, ret>>
    /\ last' = [name |-> "evict_purged", arg |-> entity_ids[Owner]]

\* --------------------------------------------------------------- Next
\* the calls of the two contexts interleave at their storage queries;
\* entity ids are drawn from U and requests are no longer than n
Interleaved(U, n) ==
    \/ Load(U, n)
    \/ AddPending(U)
    \/ Commit
    \/ PostCommitPending
    \/ Reset
    \/ Purge
    \/ EvictPurged
    \/ \E p \in Procs :
         \/ GetMany(p, U, n)
         \/ Query(p)
         \/ Apply(p)
         \/ Return(p)

Next == Interleaved(IdsC, MaxReqC)

Spec == Init /\ [][Next]_vars

\* the same interleaving over every entity id: enough ids to fill the LRU
NextWide == Interleaved(Ids, MaxReqC)

SpecWide == Init /\ [][NextWide]_vars

\* one method at a time: a context starts or continues when the other is idle
Quiet(p) == pc[p] = "idle"

NextSeq ==
    \/ Quiet(Reader) /\ Load(Ids, MaxReq)
    \/ Quiet(Reader) /\ AddPending(Ids)
    \/ Quiet(Reader) /\ Commit
    \/ Quiet(Reader) /\ PostCommitPending
    \/ Quiet(Reader) /\ Reset
    \/ Quiet(Reader) /\ Purge
    \/ Quiet(Reader) /\ EvictPurged
    \/ Quiet(Reader) /\ GetMany(Owner, Ids, MaxReq)
    \/ Quiet(Reader) /\ Get(Owner, Ids)
    \/ Quiet(Owner) /\ GetMany(Reader, Ids, MaxReq)
    \/ Quiet(Owner) /\ Get(Reader, Ids)
    \/ \E p \in Procs :
         \/ Query(p)
         \/ Apply(p)
         \/ Return(p)

SpecSeq == Init /\ [][NextSeq]_vars

\* ------------------------------------------------- raised exceptions
\* an exception propagates out of the method: the caller has it and the
\* call's locals are gone
Raised(p) ==
    /\ pc[p] = "raised"
    /\ pc' = [pc EXCEPT ![p] = "idle"]
    /\ op' = [op EXCEPT ![p] = "none"]
    /\ entity_ids' = [entity_ids EXCEPT ![p] = <<>>]
    /\ results' = [results EXCEPT ![p] = EmptyMap]
    /\ missing' = [missing EXCEPT ![p] = <<>>]
    /\ chunks' = [chunks EXCEPT ![p] = <<>>]
    /\ update_cache' = [update_cache EXCEPT ![p] = FALSE]
    /\ rows' = [rows EXCEPT ![p] = <<>>]
    /\ nq' = [nq EXCEPT ![p] = 0]
    /\ ret' = [ret EXCEPT ![p] = None]
    /\ UNCHANGED <<storage, nextId, id_map, pending, did_first_load>>
    /\ last' = NoLast

\* ------------------------------------- callers that break the contract
AssertNothing(entity_id) == TRUE

\* line 129: assert db_states_meta.entity_id is not None
AssertEntityId(entity_id) == entity_id # None

\* add_pending(db_states_meta) with any entity_id: one of U, the empty
\* string or None
AddPendingAny(U) ==
    /\ pc[Owner] = "idle"
    /\ \E e \in U \cup {EmptyStr, None} :
         IF AssertEntityId(e)
         THEN /\ e \in DOMAIN storage => storage[e] = None
              /\ pending' = DictSet(pending, e, None)
              /\ OwnerReturns
         ELSE /\ pending' = pending
              /\ pc' = [pc EXCEPT ![Owner] = "raised"]
              /\ op' = [op EXCEPT ![Owner] = "add_pending"]
    /\ UNCHANGED <<storage, nextId, id_map, did_first_load, call>>
    /\ last' = NoLast

\* post_commit_pending() with no commit since the records were added: their
\* metadata_id is still None
PostCommitPendingEarly ==
    /\ pc[Owner] = "idle"
    /\ pending # <<>>
    /\ id_map' = Promote(pending, id_map)
    /\ pending' = <<>>
    /\ OwnerReturns
    /\ UNCHANGED <<storage, nextId, did_first_load, call>>
    /\ last' = [name |-> "post_commit_pending", arg |-> pending]

\* one method at a time, by callers that may break the contract of
\* add_pending and post_commit_pending
NextMisuse ==
    \/ Quiet(Reader) /\ Load(IdsC, MaxReqC)
    \/ Quiet(Reader) /\ AddPendingAny(IdsC)
    \/ Quiet(Reader) /\ Commit
    \/ Quiet(Reader) /\ PostCommitPending
    \/ Quiet(Reader) /\ PostCommitPendingEarly
    \/ Quiet(Reader) /\ Reset
    \/ Quiet(Reader) /\ Purge
    \/ Quiet(Reader) /\ EvictPurged
    \/ Quiet(Reader) /\ GetMany(Owner, IdsC, MaxReqC)
    \/ Quiet(Owner) /\ GetMany(Reader, IdsC, MaxReqC)
    \/ Raised(Owner)
    \/ \E p \in Procs :
         \/ Query(p)
         \/ Apply(p)
         \/ Return(p)

SpecMisuse == Init /\ [][NextMisuse]_vars

\* ------------------------------------- get_metadata_id_to_entity_id
\* ..queries.find_all_states_metadata_ids: every (metadata_id, entity_id)
\* row of the table
FindAllStatesMetadataIds(st) ==
    {<<st[e], e>> : e \in {x \in DOMAIN st : st[x] # None}}

\* the dump taken from the cache
DictOfCache(rs) ==
    [k \in {id_map[i][2] : i \in DOMAIN id_map} |->
        id_map[CHOOSE i \in DOMAIN id_map : id_map[i][2] = k][1]]

\* line 69: dict(tuple(rows)), a later row replacing an earlier one of the
\* same key
DictOf(rs) ==
    [k \in {rs[i][1] : i \in DOMAIN rs} |->
        rs[CHOOSE i \in DOMAIN rs :
              /\ rs[i][1] = k
              /\ \A j \in DOMAIN rs : j > i => rs[j][1] # k][2]]

\* get_metadata_id_to_entity_id(session), from any context
GetMetadataIdToEntityId(p) ==
    /\ pc[p] = "idle"
    /\ \E rs \in SeqsOf(FindAllStatesMetadataIds(storage)) :
         results' = [results EXCEPT ![p] = DictOf(rs)]
    /\ nq' = [nq EXCEPT ![p] = nq[p] + 1]
    /\ pc' = [pc EXCEPT ![p] = "done"]
    /\ op' = [op EXCEPT ![p] = "get_metadata_id_to_entity_id"]
    /\ UNCHANGED <<storage, nextId, id_map, pending, did_first_load,
                   entity_ids, missing, chunks, update_cache, rows, ret>>
    /\ UNCHANGED last

\* the interleaving of Spec, with dumps of the table from both contexts
NextDump ==
    \/ Interleaved(IdsC, MaxReqC)
    \/ \E p \in Procs : GetMetadataIdToEntityId(p)

SpecDump == Init /\ [][NextDump]_vars

\* ------------------------------------------------- a failing query
\* a failure that takes back what the call had cached
QueryFailsRollsBack(p) ==
    /\ pc[p] = "query"
    /\ pc' = [pc EXCEPT ![p] = "raised"]
    /\ nq' = [nq EXCEPT ![p] = nq[p] + 1]
    /\ id_map' = Evict(missing[p], id_map)
    /\ UNCHANGED <<storage, nextId, pending, did_first_load, op,
                   entity_ids, results, missing, chunks, update_cache, rows,
                   ret>>
    /\ UNCHANGED last

\* lines 104-105: session.execute raises; nothing in get_many, get or load
\* catches it
QueryFails(p) ==
    /\ pc[p] = "query"
    /\ pc' = [pc EXCEPT ![p] = "raised"]
    /\ nq' = [nq EXCEPT ![p] = nq[p] + 1]
    /\ UNCHANGED <<storage, nextId, id_map, pending, did_first_load, op,
                   entity_ids, results, missing, chunks, update_cache, rows,
                   ret>>
    /\ UNCHANGED last

\* one method at a time, with storage queries that may fail
NextFail ==
    \/ NextSeq
    \/ \E p \in Procs :
         \/ QueryFails(p)
         \/ Raised(p)

SpecFail == Init /\ [][NextFail]_vars

\* ------------------------------------------------------------- claims
\* the steps of a resolution by context p
Begins(p) == pc[p] = "idle" /\ pc'[p] \in {"query", "done"}
Applies(p) == pc[p] = "apply" /\ pc'[p] # "apply"
Finishes(p) == pc[p] # "done" /\ pc'[p] = "done"

Requested(p) == Range(entity_ids[p])
Missed(p) == Range(missing[p])

\* C1 (warm gating): when a resolution by the context that is not the owner
\* consumes the rows of its storage query, every row's metadata_id is the
\* one storage holds and is what the call returns for it; before the first
\* load the rows are put in the cache (the last CACHE_SIZE of them are
\* still there after the step), and once load has been called the cache
\* holds exactly the entries it held.
C1_WarmGating ==
    [][Applies(Reader) =>
         /\ \A i \in DOMAIN rows[Reader] :
              LET e == rows[Reader][i][2]
              IN  /\ results'[Reader][e] = storage[e]
                  /\ storage[e] # None
                  /\ (~did_first_load /\ i > Len(rows[Reader]) - CACHE_SIZE)
                        => LruPeek(id_map', e) = storage[e]
         /\ did_first_load => Contents(id_map') = Contents(id_map)]_vars

\* a resolution after load returned an id from storage and did not cache it
C1_Witness ==
    /\ pc[Reader] = "done"
    /\ did_first_load
    /\ \E e \in Missed(Reader) :
         /\ results[Reader][e] # None
         /\ LruPeek(id_map, e) = None

\* C2 (no non-owner write once warmed): once load has been called, no step
\* of a resolution by the context that is not the owner adds or changes a
\* cache entry.
C2_NoReaderWriteOnceWarmed ==
    [][(did_first_load /\ pc'[Reader] # pc[Reader])
         => Contents(id_map') \subseteq Contents(id_map)]_vars

\* C3 (no dangling entry): when no purged id awaits evict_purged, every
\* cache entry is a row of storage.
C3_NoDanglingEntry ==
    pc[Owner] # "evict"
       => \A i \in DOMAIN id_map : storage[id_map[i][1]] = id_map[i][2]

\* m without the entries of the keys W
Without(m, W) == SelectSeq(m, LAMBDA x : x[1] \notin W)

IsSuffix(a, b) == \E k \in 0..Len(b) : a = SubSeq(b, k + 1, Len(b))

\* the step wrote the <<key, value>> pairs w, in this order, into the LRU:
\* the last CACHE_SIZE of them are in it, the entries that went are the
\* least recently used of those not written, and when the keys no longer
\* fit the LRU is left full
Inserted(w) ==
    LET W == {w[i][1] : i \in DOMAIN w}
    IN  /\ \A i \in DOMAIN w :
             i > Len(w) - CACHE_SIZE => LruPeek(id_map', w[i][1]) = w[i][2]
        /\ IsSuffix(Without(id_map', W), Without(id_map, W))
        /\ Cardinality(LruKeys(id_map) \cup W) > CACHE_SIZE
              => Len(id_map') = CACHE_SIZE
        /\ Cardinality(LruKeys(id_map) \cup W) <= CACHE_SIZE
              => LruKeys(id_map') = LruKeys(id_map) \cup W

\* the rows of p's query as <<entity_id, metadata_id>> pairs
RowPairs(p) == [i \in DOMAIN rows[p] |-> <<rows[p][i][2], rows[p][i][1]>>]

Promotes == pc[Owner] = "post_commit" /\ pc'[Owner] = "idle"

\* C4 (capacity bound): after every step of every interleaving the cache
\* holds at most CACHE_SIZE entries, one per key; a step that inserts
\* (the rows of a query, the pending records) into a cache that cannot
\* hold them all leaves exactly CACHE_SIZE entries, and the entries that
\* went are the least recently used.
C4_Capacity ==
    [][/\ Len(id_map') <= CACHE_SIZE
       /\ Cardinality(LruKeys(id_map')) = Len(id_map')
       /\ \A p \in Procs :
            (Applies(p) /\ update_cache[p]) => Inserted(RowPairs(p))
       /\ Promotes => Inserted(pending)]_vars

\* CACHE_SIZE + 1 records were promoted: the cache is full and the first
\* of them is not in it
C4_Witness ==
    /\ last.name = "post_commit_pending"
    /\ Len(last.arg) = CACHE_SIZE + 1
    /\ Len(id_map) = CACHE_SIZE
    /\ last.arg[1][1] \notin LruKeys(id_map)

\* C5 (purge eviction): the resolution by the other context that follows
\* evict_purged(ids) does not take an evicted id from the cache: the id is
\* a miss, a storage query is issued, and the result is what storage holds
\* (None when the row is gone).
C5_PurgeEviction ==
    (pc[Reader] = "done" /\ last.name = "evict_purged")
       => \A e \in Range(last.arg) \cap Requested(Reader) :
             /\ e \in Missed(Reader)
             /\ nq[Reader] >= 1
             /\ results[Reader][e] = storage[e]

C5_Witness ==
    /\ pc[Reader] = "done"
    /\ last.name = "evict_purged"
    /\ \E e \in Range(last.arg) \cap Requested(Reader) :
         results[Reader][e] = None

\* the records of the last post_commit_pending from position k on, as seen
\* by the resolution p that follows it: each requested one is a cache hit
\* with the record's metadata_id, and a call that asks for nothing else
\* issues no storage query
PromotedServed(p, k) ==
    (pc[p] = "done" /\ last.name = "post_commit_pending")
       => /\ \A i \in DOMAIN last.arg :
               (i >= k /\ last.arg[i][1] \in Requested(p))
                  => /\ last.arg[i][1] \notin Missed(p)
                     /\ results[p][last.arg[i][1]] = last.arg[i][2]
          /\ Requested(p) \subseteq
                {last.arg[i][1] : i \in {j \in DOMAIN last.arg : j >= k}}
                => nq[p] = 0

\* C6 as claimed (pending promotion): every record promoted by
\* post_commit_pending is served from the cache by the resolution that
\* follows, whatever else was buffered.
C6_AnyPromotedServed == \A p \in Procs : PromotedServed(p, 1)

\* C6 as amended: the last CACHE_SIZE records promoted (all of them when
\* no more than CACHE_SIZE were buffered) are served from the cache by the
\* resolution that follows, with no storage query for them.
C6_LastPromotedServed ==
    \A p \in Procs : PromotedServed(p, Len(last.arg) - CACHE_SIZE + 1)

C6_Witness ==
    \E p \in Procs :
       /\ pc[p] = "done"
       /\ last.name = "post_commit_pending"
       /\ Len(last.arg) >= 2
       /\ Requested(p) = {last.arg[i][1] : i \in DOMAIN last.arg}
       /\ nq[p] = 0

\* C7 (idempotence on hits): a resolution whose ids are all cached returns
\* the cached ids without a storage query, a storage query is issued only
\* when some requested id is not cached, and resolving the same ids again
\* right away gives the same result map, again without a miss.
C7_IdempotentHits ==
    \A p \in Procs :
       /\ (pc[p] = "query" /\ nq[p] = 0)
             => \E e \in Requested(p) : LruPeek(id_map, e) = None
       /\ (pc[p] = "done" /\ missing[p] = <<>>)
             => LET again == Scan(entity_ids[p], id_map, EmptyMap, <<>>)
                IN  /\ nq[p] = 0
                    /\ \A e \in Requested(p) :
                          /\ results[p][e] # None
                          /\ results[p][e] = LruPeek(id_map, e)
                    /\ again.missing = <<>>
                    /\ again.results = results[p]
                    /\ Contents(again.m) = Contents(id_map)

C7_Witness ==
    \E p \in Procs :
       /\ pc[p] = "done"
       /\ missing[p] = <<>>
       /\ Cardinality(Requested(p)) >= 2

\* C8 (result coverage): the result map has exactly the requested ids; a
\* cached id maps to its cached metadata_id and stays so to the return, a
\* missed id maps to the metadata_id of its storage row, None when it has
\* none; get returns get_many's entry for its entity_id.
C8_ResultCoverage ==
    [][\A p \in Procs :
         /\ Begins(p) =>
              /\ DOMAIN results'[p] = Range(entity_ids'[p])
              /\ \A e \in Range(entity_ids'[p]) :
                    IF LruPeek(id_map, e) # None
                    THEN /\ results'[p][e] = LruPeek(id_map, e)
                         /\ e \notin Range(missing'[p])
                    ELSE e \in Range(missing'[p])
         /\ Applies(p) =>
              \A e \in Requested(p) \ Missed(p) : results'[p][e] = results[p][e]
         /\ Finishes(p) =>
              /\ DOMAIN results'[p] = Range(entity_ids'[p])
              /\ \A e \in Range(missing'[p]) : results'[p][e] = storage[e]
              /\ op'[p] = "get" => ret'[p] = results'[p][entity_ids'[p][1]]]_vars

\* one call returned a cached id, an id from storage and None
C8_Witness ==
    \E p \in Procs :
       /\ pc[p] = "done"
       /\ Requested(p) \ Missed(p) # {}
       /\ \E e \in Missed(p) : results[p][e] # None
       /\ \E e \in Missed(p) : results[p][e] = None

\* C9 (no negative caching): no cache entry holds None; no step of a
\* resolution changes what the cache holds for an id that has no storage
\* row; and a resolution never returns None for an id that has a row.
C9_NoNegativeCaching ==
    [][/\ \A i \in DOMAIN id_map' : id_map'[i][2] # None
       /\ \A p \in Procs :
            (Begins(p) \/ Applies(p)) =>
               \A e \in Ids :
                  storage[e] = None =>
                     /\ LruPeek(id_map', e) = LruPeek(id_map, e)
                     /\ (e \in LruKeys(id_map')) = (e \in LruKeys(id_map))
       /\ \A p \in Procs :
            Finishes(p) =>
               \A e \in Range(entity_ids'[p]) :
                  storage[e] # None => results'[p][e] = storage[e]]_vars

\* a resolution returned None for an id and the id is not in the cache
C9_Witness ==
    \E p \in Procs :
       /\ pc[p] = "done"
       /\ \E e \in Missed(p) :
            /\ results[p][e] = None
            /\ e \notin LruKeys(id_map)

\* the storage queries n misses take
ChunkCount(n) == (n + SQLITE_MAX_BIND_VARS - 1) \div SQLITE_MAX_BIND_VARS

RECURSIVE Flatten(_)
Flatten(ss) == IF ss = <<>> THEN <<>> ELSE Head(ss) \o Flatten(Tail(ss))

\* what a query for e alone returns
Individually(e) ==
    LET r == FindStatesMetadataIds(<<e>>, storage)
    IN  IF r = {} THEN None ELSE (CHOOSE x \in r : TRUE)[1]

\* C10 (chunking): a resolution with n entries in its miss list issues
\* ChunkCount(n) storage queries, each for at most SQLITE_MAX_BIND_VARS
\* ids, the chunks being the miss list cut in order; on return every
\* missed id maps to what a query for it alone returns.
C10_Chunking ==
    \A p \in Procs :
       /\ \A i \in DOMAIN chunks[p] :
             Len(chunks[p][i]) \in 1..SQLITE_MAX_BIND_VARS
       /\ pc[p] \in {"query", "apply", "done"}
             => nq[p] + Len(chunks[p]) = ChunkCount(Len(missing[p]))
       /\ (pc[p] = "query" /\ nq[p] = 0) => Flatten(chunks[p]) = missing[p]
       /\ pc[p] = "done"
             => /\ nq[p] = ChunkCount(Len(missing[p]))
                /\ \A e \in Missed(p) : results[p][e] = Individually(e)

\* more misses than one query takes
C10_Witness ==
    \E p \in Procs :
       /\ pc[p] = "done"
       /\ Len(missing[p]) > SQLITE_MAX_BIND_VARS
       /\ nq[p] >= 2
       /\ \E e \in Missed(p) : results[p][e] # None

\* C11 (promotion of unassigned records): post_commit_pending never
\* completes a promotion of a record whose metadata_id is None, and no
\* cache entry holds None.
C11_UnassignedNotPromoted ==
    /\ \A i \in DOMAIN id_map : id_map[i][2] # None
    /\ last.name = "post_commit_pending"
          => \A i \in DOMAIN last.arg : last.arg[i][2] # None

\* the step in which add_pending raises
AddPendingRaises == pc[Owner] = "idle" /\ pc'[Owner] = "raised"

Dumps(p) == pc[p] = "idle" /\ op'[p] = "get_metadata_id_to_entity_id"

\* the table as a mapping metadata_id -> entity_id
StorageMapping ==
    [k \in {storage[e] : e \in EntityIds} \ {None} |->
        CHOOSE e \in EntityIds : storage[e] = k]

\* C13 (full-dump independence): get_metadata_id_to_entity_id returns the
\* whole table as metadata_id -> entity_id, whatever the cache holds and
\* whatever the other context is in the middle of, and leaves the cache,
\* the pending buffer and the first-load flag as they were.
C13_DumpIndependence ==
    [][\A p \in Procs :
         Dumps(p) => /\ results'[p] = StorageMapping
                     /\ id_map' = id_map
                     /\ pending' = pending
                     /\ did_first_load' = did_first_load]_vars

\* a dump returned a row the cache does not hold, taken while the other
\* context was between its query and its rows
C13_Witness ==
    /\ pc[Reader] = "done"
    /\ op[Reader] = "get_metadata_id_to_entity_id"
    /\ pc[Owner] = "apply"
    /\ \E k \in DOMAIN results[Reader] :
         results[Reader][k] \notin LruKeys(id_map)

\* C14 (the first-load flag is monotone): the flag starts False; the only
\* step that changes it is the start of load, which sets it; reset empties
\* the cache and the pending buffer and leaves the flag alone; and when the
\* other context resolves after a reset of a manager whose flag is set, the
\* rows of its query are not cached.
C14_WarmMonotone ==
    /\ ~did_first_load
    /\ [][/\ did_first_load => did_first_load'
          /\ did_first_load' # did_first_load
                => (pc[Owner] = "idle" /\ op'[Owner] = "load")
          /\ (last.name # "reset" /\ last'.name = "reset")
                => /\ id_map' = <<>>
                   /\ pending' = <<>>
                   /\ did_first_load' = did_first_load
          /\ (Applies(Reader) /\ last.name = "reset" /\ did_first_load)
                => id_map' = <<>>]_vars

\* after load and a reset, the other context resolved an id from storage
\* and the cache is still empty
C14_Witness ==
    /\ pc[Reader] = "done"
    /\ last.name = "reset"
    /\ did_first_load
    /\ id_map = <<>>
    /\ \E e \in Missed(Reader) : results[Reader][e] # None

\* the records that are in the pending buffer before the step and whose
\* entity_id is not in it after
Leaving == {i \in DOMAIN pending : pending[i][1] \notin DictKeys(pending')}

\* C15 as claimed (pending records leave by promotion only): a record
\* leaves the pending buffer only in a post_commit_pending step, with its
\* metadata_id assigned.
C15_OnlyPromotionRemoves ==
    [][\A i \in Leaving : Promotes /\ pending[i][2] # None]_vars

\* C15 as amended: a record leaves the pending buffer either in a
\* post_commit_pending step, with its metadata_id assigned and written to
\* the cache, the buffer being empty after the step, or in a reset step,
\* which drops it whether assigned or not.
C15_PromotionOrReset ==
    [][\A i \in Leaving :
         \/ /\ Promotes
            /\ pending[i][2] # None
            /\ pending' = <<>>
            /\ i > Len(pending) - CACHE_SIZE
                  => LruPeek(id_map', pending[i][1]) = pending[i][2]
         \/ /\ last'.name = "reset"
            /\ last'.arg = pending
            /\ pending' = <<>>]_vars

\* reset dropped records that had no metadata_id yet
C15_Witness ==
    /\ last.name = "reset"
    /\ pending = <<>>
    /\ \E i \in DOMAIN last.arg : last.arg[i][2] = None

\* C16 (duplicates collapse): no entity_id occurs twice in the miss list
\* of a call, the list that is cut into the parameters of its storage
\* queries.
C16_DuplicatesCollapse ==
    \A p \in Procs :
       \A i, j \in DOMAIN missing[p] :
          i # j => missing[p][i] # missing[p][j]

Loads == pc[Owner] = "idle" /\ op'[Owner] = "load"

C18_LruOrder ==
    [][\A p \in Procs :
         /\ Begins(p) =>
               LET req == entity_ids'[p]
                   hits == {i \in DOMAIN req : req[i] \in LruKeys(id_map)}
               IN  /\ Contents(id_map') = Contents(id_map)
                   /\ Without(id_map', Range(req)) = Without(id_map, Range(req))
                   /\ hits # {} =>
                         LET h == CHOOSE i \in hits : \A j \in hits : j <= i
                         IN  id_map'[Len(id_map')][1] = req[h]
                   /\ (Len(req) = 1 /\ hits # {}) =>
                         id_map' = Append(Without(id_map, {req[1]}),
                                          <<req[1], LruPeek(id_map, req[1])>>)
         /\ (/\ Applies(p)
             /\ p = Owner
             /\ Len(rows[p]) = 1
             /\ Len(id_map) = CACHE_SIZE
             /\ rows[p][1][2] \notin LruKeys(id_map))
               => id_map' = Append(Tail(id_map), <<rows[p][1][2], rows[p][1][1]>>)]_vars

\* the owner resolved one id from storage into a full cache: it is the
\* most recently used entry of a cache that is still full, and a third
\* id has a row and is not cached
C18_Witness ==
    /\ pc[Owner] = "done"
    /\ Len(missing[Owner]) = 1
    /\ Len(id_map) = CACHE_SIZE
    /\ id_map[Len(id_map)] = <<missing[Owner][1], storage[missing[Owner][1]]>>
    /\ \E e \in Ids : storage[e] # None /\ e \notin LruKeys(id_map)

\* the step in which p's storage query fails
Fails(p) == pc[p] = "query" /\ pc'[p] = "raised"

\* C19 (a failing storage query): the step in which a query of get_many,
\* get or load fails changes neither the cache (what earlier chunks of
\* the call put in it stays), nor the pending buffer, nor storage, nor
\* the first-load flag, which is True when the call is load; after it the
\* call issues no further query and only hands the exception to its
\* caller.
C19_QueryFailure ==
    [][\A p \in Procs :
         /\ Fails(p) =>
               /\ id_map' = id_map
               /\ pending' = pending
               /\ storage' = storage
               /\ did_first_load' = did_first_load
               /\ op[p] = "load" => did_first_load'
         /\ pc[p] = "raised" =>
               /\ pc'[p] \in {"raised", "idle"}
               /\ nq'[p] <= nq[p]
               /\ pc'[p] = "idle" =>
                     /\ id_map' = id_map
                     /\ pending' = pending
                     /\ did_first_load' = did_first_load]_vars

\* the second query of a load failed: an id of its first chunk is cached,
\* records are pending and the flag is True
C19_Witness ==
    /\ pc[Owner] = "raised"
    /\ op[Owner] = "load"
    /\ nq[Owner] >= 2
    /\ did_first_load
    /\ \E e \in Missed(Owner) :
         /\ results[Owner][e] # None
         /\ LruPeek(id_map, e) = results[Owner][e]

\* the step in which add_pending buffers a record
Adds ==
    /\ pc[Owner] = "idle"
    /\ pc'[Owner] = "idle"
    /\ pending' # pending
    /\ pending' # <<>>

\* C20 (the pending buffer and the cache are apart): no step of a
\* resolution changes the pending buffer and add_pending does not change
\* the cache; a resolution of an id that is pending and has no storage row
\* returns None for it and leaves it out of the cache; and a pending id is
\* not in the cache before post_commit_pending writes it there.
C20_PendingApart ==
    [][/\ \A p \in Procs :
            /\ (Begins(p) \/ Applies(p) \/ pc[p] = "done") => pending' = pending
            /\ Finishes(p) =>
                  \A e \in Range(entity_ids'[p]) \cap DictKeys(pending) :
                     storage[e] = None
                        => /\ results'[p][e] = None
                           /\ e \notin LruKeys(id_map')
       /\ Adds => id_map' = id_map
       /\ Promotes =>
             \A i \in DOMAIN pending :
                /\ pending[i][1] \notin LruKeys(id_map)
                /\ i > Len(pending) - CACHE_SIZE
                      => LruPeek(id_map', pending[i][1]) = pending[i][2]]_vars

\* a resolution returned None for an id that is pending
C20_Witness ==
    \E p \in Procs :
       /\ pc[p] = "done"
       /\ nq[p] >= 1
       /\ \E e \in Requested(p) \cap DictKeys(pending) : results[p][e] = None

=============================================================================
